---- MODULE Spec2Model ----
(***************************************************************************)
(* Weather OPS (src/app.py): the ICAO query handler of the Streamlit page, *)
(* its three cached AVWX fetchers, the visibility / ceiling extraction of  *)
(* the METAR expander, the flight-rules classifier and the banner colour.  *)
(*                                                                         *)
(* Python values are modelled as tagged records so that None, a missing    *)
(* dictionary key, numbers, strings, dictionaries and lists stay distinct  *)
(* and Python truthiness can be computed as the interpreter computes it.   *)
(* Strings are sequences of one-character strings, so that `in` and        *)
(* upper() are computed and not assumed.  Distances are integers (the      *)
(* code compares floats against integer thresholds).                       *)
(***************************************************************************)
EXTENDS Integers, Sequences, FiniteSets, TLC

(***************************************************************************)
(* pc           where the running script stands (lines 88-159)             *)
(* icao_input   the form's text, upper-cased (line 85)                     *)
(* metar_raw, metar_text, taf_raw, taf_text, station_name, lat, lon        *)
(*              the locals assigned at lines 90-92                         *)
(* data, vis, ceiling, rules, color                                        *)
(*              the locals of the METAR expander (lines 104-120)           *)
(* branches     the conditions get_flight_rules evaluated (lines 59-65)    *)
(* raised       the call that raised in this run, "analysis" for the       *)
(*              expander's try block, or "none"                            *)
(* ui           the widgets rendered so far in this run, in order          *)
(* cache        st.cache_data's entry for each fetcher                     *)
(* env          the answers the AVWX endpoints give to this run's requests *)
(* fetched      how each fetch of this run ends                            *)
(***************************************************************************)
VARIABLES pc, icao_input, metar_raw, metar_text, taf_raw, taf_text,
          station_name, lat, lon, vis, ceiling, rules, color, branches,
          raised, ui, cache, fetched, env, data

vars == <<pc, icao_input, metar_raw, metar_text, taf_raw, taf_text,
          station_name, lat, lon, vis, ceiling, rules, color, branches,
          raised, ui, cache, fetched, env, data>>

-----------------------------------------------------------------------------
(* Bounds of the model *)

\* longest list of cloud layers in a payload
MaxLayers == 2
\* visibilities tried by the classifier runs: 0, 1000, ..., MaxVisSteps * 1000
MaxVisSteps == 11
\* ceilings tried by the classifier runs: 0, 500, ..., MaxCeilSteps * 500
MaxCeilSteps == 11

-----------------------------------------------------------------------------
(* Python values *)

NoneV == [t |-> "none"]
\* a key that the dictionary does not hold (not a Python value)
Missing == [t |-> "missing"]
\* a local variable that was never assigned
Unset == [t |-> "unset"]
Num(n) == [t |-> "num", v |-> n]
Str(s) == [t |-> "str", v |-> s]
List(s) == [t |-> "list", v |-> s]

\* bool(x) of the interpreter, for the kinds of value the handler tests
Truthy(x) ==
    CASE x.t = "none" -> FALSE
      [] x.t = "num" -> x.v # 0
      [] x.t = "str" -> x.v # <<>>
      [] x.t = "list" -> x.v # <<>>
      [] OTHER -> TRUE

\* dict.get(key, default), the dictionary's entry given as `field`
DictGet(field, default) == IF field = Missing THEN default ELSE field

LowerCase == <<"a","b","c","d","e","f","g","h","i","j","k","l","m",
               "n","o","p","q","r","s","t","u","v","w","x","y","z">>
UpperCase == <<"A","B","C","D","E","F","G","H","I","J","K","L","M",
               "N","O","P","Q","R","S","T","U","V","W","X","Y","Z">>

\* str.upper() on one character
ToUpper(ch) ==
    IF \E i \in 1..26 : LowerCase[i] = ch
    THEN UpperCase[CHOOSE i \in 1..26 : LowerCase[i] = ch]
    ELSE ch

\* str.upper()
Upper(s) == [i \in 1..Len(s) |-> ToUpper(s[i])]

\* needle in hay, for two strings
Contains(needle, hay) ==
    \E i \in 0..(Len(hay) - Len(needle)) :
        SubSeq(hay, i + 1, i + Len(needle)) = needle

-----------------------------------------------------------------------------
(* Literals of the program *)

VFR_MIN_VIS == 5000
VFR_MIN_CEILING == 1500
MVFR_MIN_VIS == 3000
MVFR_MIN_CEILING == 1000
IFR_MIN_VIS == 1600
IFR_MIN_CEILING == 500
CAVOK_VIS == 10000
CAVOK_CEILING == 5000
HTTP_OK == 200

INSUFFICIENT_DATA ==
    <<"I","n","s","u","f","f","i","c","i","e","n","t"," ","d","a","t","a">>
VFR ==
    <<"V","F","R"," ","(","V","i","s","u","a","l"," ","F","l","i","g","h","t",
      " ","R","u","l","e","s",")">>
MVFR ==
    <<"M","V","F","R"," ","(","M","a","r","g","i","n","a","l"," ","V","F","R",")">>
IFR ==
    <<"I","F","R"," ","(","I","n","s","t","r","u","m","e","n","t"," ",
      "F","l","i","g","h","t"," ","R","u","l","e","s",")">>
LIFR ==
    <<"L","I","F","R"," ","(","L","o","w"," ","I","F","R",")">>

CAVOK == <<"C","A","V","O","K">>
UNKNOWN_NAME == <<"U","n","k","n","o","w","n"," ","n","a","m","e">>

-----------------------------------------------------------------------------
(* get_flight_rules *)

get_flight_rules_strict(visibility_m, ceiling_ft) ==
    IF visibility_m = NoneV \/ ceiling_ft = NoneV
    THEN INSUFFICIENT_DATA
    ELSE IF visibility_m.v > VFR_MIN_VIS /\ ceiling_ft.v > VFR_MIN_CEILING
    THEN VFR
    ELSE IF visibility_m.v > MVFR_MIN_VIS /\ ceiling_ft.v > MVFR_MIN_CEILING
    THEN MVFR
    ELSE IF visibility_m.v > IFR_MIN_VIS /\ ceiling_ft.v > IFR_MIN_CEILING
    THEN IFR
    ELSE LIFR

get_flight_rules_mvfr_ceiling(visibility_m, ceiling_ft) ==
    IF visibility_m = NoneV \/ ceiling_ft = NoneV
    THEN INSUFFICIENT_DATA
    ELSE IF visibility_m.v >= VFR_MIN_VIS /\ ceiling_ft.v >= VFR_MIN_CEILING
    THEN VFR
    ELSE IF visibility_m.v >= MVFR_MIN_VIS /\ ceiling_ft.v >= VFR_MIN_CEILING
    THEN MVFR
    ELSE IF visibility_m.v >= IFR_MIN_VIS /\ ceiling_ft.v >= IFR_MIN_CEILING
    THEN IFR
    ELSE LIFR

\* a threshold comparison as a build without the None test would make it
\* (None >= n raises TypeError in Python 3)
CmpGe(x, n) == IF x.t = "num" THEN x.v >= n ELSE FALSE

get_flight_rules_vis_only(visibility_m, ceiling_ft) ==
    IF visibility_m = NoneV
    THEN INSUFFICIENT_DATA
    ELSE IF CmpGe(visibility_m, VFR_MIN_VIS) /\ CmpGe(ceiling_ft, VFR_MIN_CEILING)
    THEN VFR
    ELSE IF CmpGe(visibility_m, MVFR_MIN_VIS) /\ CmpGe(ceiling_ft, MVFR_MIN_CEILING)
    THEN MVFR
    ELSE IF CmpGe(visibility_m, IFR_MIN_VIS) /\ CmpGe(ceiling_ft, IFR_MIN_CEILING)
    THEN IFR
    ELSE LIFR

\* the value returned
get_flight_rules(visibility_m, ceiling_ft) ==
    IF visibility_m = NoneV \/ ceiling_ft = NoneV
    THEN INSUFFICIENT_DATA
    ELSE IF visibility_m.v >= VFR_MIN_VIS /\ ceiling_ft.v >= VFR_MIN_CEILING
    THEN VFR
    ELSE IF visibility_m.v >= MVFR_MIN_VIS /\ ceiling_ft.v >= MVFR_MIN_CEILING
    THEN MVFR
    ELSE IF visibility_m.v >= IFR_MIN_VIS /\ ceiling_ft.v >= IFR_MIN_CEILING
    THEN IFR
    ELSE LIFR

\* the source lines of the conditions get_flight_rules evaluates, in order
get_flight_rules_branches(visibility_m, ceiling_ft) ==
    IF visibility_m = NoneV \/ ceiling_ft = NoneV
    THEN <<59>>
    ELSE IF visibility_m.v >= VFR_MIN_VIS /\ ceiling_ft.v >= VFR_MIN_CEILING
    THEN <<59, 61>>
    ELSE IF visibility_m.v >= MVFR_MIN_VIS /\ ceiling_ft.v >= MVFR_MIN_CEILING
    THEN <<59, 61, 63>>
    ELSE <<59, 61, 63, 65>>

\* the colour of the flight-conditions banner
BannerColor(r) ==
    IF Contains(<<"V","F","R">>, r) THEN "green"
    ELSE IF Contains(<<"M","V","F","R">>, r) THEN "orange"
    ELSE IF Contains(<<"I","F","R">>, r) THEN "red"
    ELSE "#8B0000"

-----------------------------------------------------------------------------
(* What the AVWX endpoints can answer *)

TEXT_CAVOK == <<"E","G"," ","C","A","V","O","K">>
TEXT_CAVOK_MIXED == <<"e","g"," ","C","a","v","O","k">>
TEXT_CLOUDY == <<"E","G"," ","9","9","9","9">>
TEXT_SANITIZED == <<"s","a","n">>
TEXT_TAF == <<"T","A","F"," ","E","G">>
TEXT_STATION == <<"H","e","a","t","h","r","o","w">>

Statuses == {HTTP_OK, 404}

\* requests.get raised (no response at all)
NetworkFailure == [kind |-> "neterr"]
\* a response whose body r.json() cannot parse
NotJson == [json |-> FALSE]

MetarTextBodies ==
    [json : {TRUE},
     raw : {Missing, NoneV, Str(<<>>), Str(TEXT_CAVOK), Str(TEXT_CAVOK_MIXED),
            Str(TEXT_CLOUDY)},
     sanitized : {Str(TEXT_SANITIZED)}]

TafBodies ==
    [json : {TRUE},
     raw : {Missing, Str(TEXT_TAF)},
     sanitized : {Str(TEXT_SANITIZED)}]

StationBodies ==
    [json : {TRUE},
     name : {Missing, Str(TEXT_STATION)},
     latitude : {Missing, Num(0), Num(51)},
     longitude : {Num(2)}]

Responses(bodies) ==
    {NetworkFailure} \cup [kind : {"http"}, status : Statuses, body : bodies \cup {NotJson}]

\* the "visibility" entry of a METAR payload
VisibilityFields ==
    {Missing, NoneV}
    \cup [t : {"dict"},
          meters_float : {Missing, NoneV, Num(0), Num(800), Num(3500), Num(6000)}]

\* one element of the "clouds" list
CloudLayers ==
    [t : {"dict"},
     base_feet_agl : {Missing, NoneV, Num(0), Num(600), Num(2000)}]

LayerLists == UNION {[1..n -> CloudLayers] : n \in 0..MaxLayers}

CloudsFields == {Missing, NoneV} \cup {List(l) : l \in LayerLists}

MetarDataBodies ==
    [json : {TRUE}, visibility : VisibilityFields, clouds : CloudsFields]

\* the answers to the expander's own request, whose status the code never reads
DataResponses ==
    {NetworkFailure} \cup [kind : {"http"}, body : MetarDataBodies \cup {NotJson}]

-----------------------------------------------------------------------------
(* The fetchers: what one call returns for one answer of the endpoint *)

Raise == [exc |-> TRUE]
Return(v) == [exc |-> FALSE, val |-> v]

get_metar(r) ==
    IF r.kind = "neterr" THEN Raise
    ELSE IF r.status = HTTP_OK
    THEN IF ~r.body.json THEN Raise
         ELSE Return(<<DictGet(r.body.raw, Str(<<>>)),
                       DictGet(r.body.sanitized, Str(<<>>))>>)
    ELSE Return(<<NoneV, NoneV>>)

get_taf(r) ==
    IF r.kind = "neterr" THEN Raise
    ELSE IF r.status = HTTP_OK
    THEN IF ~r.body.json THEN Raise
         ELSE Return(<<DictGet(r.body.raw, Str(<<>>)),
                       DictGet(r.body.sanitized, Str(<<>>))>>)
    ELSE Return(<<NoneV, NoneV>>)

get_station_name(r) ==
    IF r.kind = "neterr" THEN Raise
    ELSE IF r.status = HTTP_OK
    THEN IF ~r.body.json THEN Raise
         ELSE Return(<<DictGet(r.body.name, Str(UNKNOWN_NAME)),
                       DictGet(r.body.latitude, NoneV),
                       DictGet(r.body.longitude, NoneV)>>)
    ELSE Return(<<Str(UNKNOWN_NAME), NoneV, NoneV>>)

\* how a fetch ended, kept beside the cached value for the properties' use
Outcome(r) ==
    IF r.kind = "neterr" THEN "neterr"
    ELSE IF r.status # HTTP_OK THEN "status"
    ELSE IF ~r.body.json THEN "badjson"
    ELSE "ok"

\* st.cache_data: an entry per function for the one ICAO code of the model;
\* a call that raises stores nothing
EmptyCache ==
    [get_metar |-> Missing, get_taf |-> Missing, get_station_name |-> Missing]

NoFetch == [get_metar |-> "none", get_taf |-> "none", get_station_name |-> "none"]

\* no request pending
NotAsked == [kind |-> "notasked"]
NoEnv == [get_metar |-> NotAsked, get_taf |-> NotAsked, get_station_name |-> NotAsked]

\* the answers the three endpoints would give during one run; a function
\* whose result is cached sends no request
Envs(c) ==
    [get_metar : IF c.get_metar = Missing
                 THEN Responses(MetarTextBodies) ELSE {NotAsked},
     get_taf : IF c.get_taf = Missing
               THEN Responses(TafBodies) ELSE {NotAsked},
     get_station_name : IF c.get_station_name = Missing
                        THEN Responses(StationBodies) ELSE {NotAsked}]

\* how each source answers in a run: from the cache, or from the endpoint
Sources(c, e) ==
    [f \in {"get_metar", "get_taf", "get_station_name"} |->
        IF c[f] = Missing THEN Outcome(e[f]) ELSE c[f].how]

-----------------------------------------------------------------------------
(* The METAR expander's analysis block *)

RECURSIVE CeilingScan(_)
\* the for loop over data.get("clouds", [])
CeilingScan(layers) ==
    IF layers = <<>> THEN NoneV
    ELSE IF Truthy(DictGet(Head(layers).base_feet_agl, NoneV))
    THEN Num(Head(layers).base_feet_agl.v)
    ELSE CeilingScan(Tail(layers))

\* vis = float(vis_raw) if vis_raw else None
VisOf(vis_raw) == IF Truthy(vis_raw) THEN Num(vis_raw.v) ELSE NoneV

AnalysisFailed(d, v, c) ==
    [exc |-> TRUE, data |-> d, vis |-> v, ceiling |-> c, rules |-> Unset, color |-> Unset,
     branches |-> <<>>]

\* the try block: r is the answer to its own request, raw is metar_raw
Analysis(r, raw) ==
    IF r.kind = "neterr" THEN AnalysisFailed(Unset, Unset, Unset)
    ELSE IF ~r.body.json THEN AnalysisFailed(Unset, Unset, Unset)
    ELSE LET payload == r.body
             visibility == DictGet(payload.visibility, [t |-> "dict", meters_float |-> Missing])
         IN  IF visibility.t # "dict" THEN AnalysisFailed(payload, Unset, Unset)
             ELSE LET v0 == VisOf(DictGet(visibility.meters_float, NoneV))
                      clouds == DictGet(payload.clouds, List(<<>>))
                  IN  IF clouds.t # "list" THEN AnalysisFailed(payload, v0, NoneV)
                      ELSE LET c0 == CeilingScan(clouds.v)
                           IN  IF raw.t # "str" THEN AnalysisFailed(payload, v0, c0)
                               ELSE LET cavok == Contains(CAVOK, Upper(raw.v))
                                        v == IF cavok THEN Num(CAVOK_VIS) ELSE v0
                                        c == IF cavok THEN Num(CAVOK_CEILING) ELSE c0
                                        rl == get_flight_rules(v, c)
                                    IN  [exc |-> FALSE, data |-> payload, vis |-> v, ceiling |-> c,
                                         rules |-> Str(rl),
                                         color |-> Str(BannerColor(rl)),
                                         branches |-> get_flight_rules_branches(v, c)]

-----------------------------------------------------------------------------
(* One run of the script: the query handler, step by step *)

IcaoInputs == {<<>>, <<"e","g","l","l">>, <<"E","G","L","L">>}

Widget(w, a, b) == [w |-> w, a |-> a, b |-> b]

NoLocals ==
    /\ metar_raw' = Unset /\ metar_text' = Unset
    /\ taf_raw' = Unset /\ taf_text' = Unset
    /\ station_name' = Unset /\ lat' = Unset /\ lon' = Unset
    /\ vis' = Unset /\ ceiling' = Unset /\ rules' = Unset /\ color' = Unset
    /\ branches' = <<>> /\ raised' = "none" /\ data' = Unset

\* the page as first loaded: nothing submitted, the hint and the footer shown
Init ==
    /\ pc = "done"
    /\ icao_input = <<>>
    /\ metar_raw = Unset /\ metar_text = Unset
    /\ taf_raw = Unset /\ taf_text = Unset
    /\ station_name = Unset /\ lat = Unset /\ lon = Unset
    /\ vis = Unset /\ ceiling = Unset /\ rules = Unset /\ color = Unset
    /\ branches = <<>> /\ raised = "none" /\ fetched = NoFetch
    /\ env = NoEnv /\ data = Unset
    /\ ui = <<Widget("info_enter_icao", NoneV, NoneV), Widget("footer", NoneV, NoneV)>>
    /\ cache = EmptyCache

\* a rerun of the script with the form's state: `if submit and icao_input`
Submit ==
    /\ pc = "done"
    /\ \E submit \in BOOLEAN, code \in IcaoInputs :
        /\ icao_input' = Upper(code)
        /\ IF submit /\ Upper(code) # <<>>
           THEN /\ pc' = "get_metar"
                /\ ui' = <<>>
                /\ env' \in Envs(cache)
                /\ fetched' = Sources(cache, env')
           ELSE /\ pc' = "footer"
                /\ ui' = <<Widget("info_enter_icao", NoneV, NoneV)>>
                /\ env' = NoEnv
                /\ fetched' = NoFetch
    /\ NoLocals
    /\ UNCHANGED cache

\* metar_raw, metar_text = get_metar(icao_input)
GetMetar ==
    /\ pc = "get_metar"
    /\ IF cache.get_metar # Missing
       THEN /\ metar_raw' = cache.get_metar.val[1]
            /\ metar_text' = cache.get_metar.val[2]
            /\ pc' = "get_taf"
            /\ UNCHANGED <<cache, raised, env>>
       ELSE LET r == env.get_metar
                out == get_metar(r) IN
            /\ env' = [env EXCEPT !.get_metar = NotAsked]
            /\ IF out.exc
               THEN /\ raised' = "get_metar"
                    /\ pc' = "error"
                    /\ UNCHANGED <<metar_raw, metar_text, cache>>
               ELSE /\ metar_raw' = out.val[1]
                    /\ metar_text' = out.val[2]
                    /\ cache' = [cache EXCEPT !.get_metar =
                                    [val |-> out.val, how |-> Outcome(r)]]
                    /\ pc' = "get_taf"
                    /\ UNCHANGED raised
    /\ UNCHANGED <<icao_input, taf_raw, taf_text, station_name, lat, lon, vis,
                   ceiling, rules, color, branches, ui, fetched, data>>

\* taf_raw, taf_text = get_taf(icao_input)
GetTaf ==
    /\ pc = "get_taf"
    /\ IF cache.get_taf # Missing
       THEN /\ taf_raw' = cache.get_taf.val[1]
            /\ taf_text' = cache.get_taf.val[2]
            /\ pc' = "get_station_name"
            /\ UNCHANGED <<cache, raised, env>>
       ELSE LET r == env.get_taf
                out == get_taf(r) IN
            /\ env' = [env EXCEPT !.get_taf = NotAsked]
            /\ IF out.exc
               THEN /\ raised' = "get_taf"
                    /\ pc' = "error"
                    /\ UNCHANGED <<taf_raw, taf_text, cache>>
               ELSE /\ taf_raw' = out.val[1]
                    /\ taf_text' = out.val[2]
                    /\ cache' = [cache EXCEPT !.get_taf =
                                    [val |-> out.val, how |-> Outcome(r)]]
                    /\ pc' = "get_station_name"
                    /\ UNCHANGED raised
    /\ UNCHANGED <<icao_input, metar_raw, metar_text, station_name, lat, lon, vis,
                   ceiling, rules, color, branches, ui, fetched, data>>

\* station_name, lat, lon = get_station_name(icao_input)
GetStationName ==
    /\ pc = "get_station_name"
    /\ IF cache.get_station_name # Missing
       THEN /\ station_name' = cache.get_station_name.val[1]
            /\ lat' = cache.get_station_name.val[2]
            /\ lon' = cache.get_station_name.val[3]
            /\ pc' = "header"
            /\ UNCHANGED <<cache, raised, env>>
       ELSE LET r == env.get_station_name
                out == get_station_name(r) IN
            /\ env' = [env EXCEPT !.get_station_name = NotAsked]
            /\ IF out.exc
               THEN /\ raised' = "get_station_name"
                    /\ pc' = "error"
                    /\ UNCHANGED <<station_name, lat, lon, cache>>
               ELSE /\ station_name' = out.val[1]
                    /\ lat' = out.val[2]
                    /\ lon' = out.val[3]
                    /\ cache' = [cache EXCEPT !.get_station_name =
                                    [val |-> out.val, how |-> Outcome(r)]]
                    /\ pc' = "header"
                    /\ UNCHANGED raised
    /\ UNCHANGED <<icao_input, metar_raw, metar_text, taf_raw, taf_text, vis,
                   ceiling, rules, color, branches, ui, fetched, data>>

\* the subheader, and the map `if lat and lon`
Header ==
    /\ pc = "header"
    /\ ui' = ui \o <<Widget("subheader", station_name, Str(icao_input))>>
                \o (IF Truthy(lat) /\ Truthy(lon)
                    THEN <<Widget("map", lat, lon)>> ELSE <<>>)
    /\ pc' = "analysis"
    /\ UNCHANGED <<icao_input, metar_raw, metar_text, taf_raw, taf_text,
                   station_name, lat, lon, vis, ceiling, rules, color, branches,
                   raised, cache, fetched, env,
                   data>>

\* the try / bare except of the METAR expander, with its own request
Analyze ==
    /\ pc = "analysis"
    /\ \E r \in DataResponses :
        LET out == Analysis(r, metar_raw) IN
        /\ data' = out.data
        /\ vis' = out.vis
        /\ ceiling' = out.ceiling
        /\ rules' = out.rules
        /\ color' = out.color
        /\ branches' = out.branches
        /\ raised' = IF out.exc THEN "analysis" ELSE raised
        /\ ui' = IF out.exc
                 THEN Append(ui, Widget("info_unable_to_analyze", NoneV, NoneV))
                 ELSE ui \o <<Widget("visibility_ceiling", out.vis, out.ceiling),
                              Widget("banner", out.color, out.rules)>>
    /\ pc' = "show_metar"
    /\ UNCHANGED <<icao_input, metar_raw, metar_text, taf_raw, taf_text,
                   station_name, lat, lon, cache, fetched, env>>

\* if metar_raw: st.code / st.caption, else the warning
ShowMetar ==
    /\ pc = "show_metar"
    /\ ui' = IF Truthy(metar_raw)
             THEN Append(ui, Widget("metar", metar_raw, metar_text))
             ELSE Append(ui, Widget("warning_metar_unavailable", NoneV, NoneV))
    /\ pc' = "show_taf"
    /\ UNCHANGED <<icao_input, metar_raw, metar_text, taf_raw, taf_text,
                   station_name, lat, lon, vis, ceiling, rules, color, branches,
                   raised, cache, fetched, env,
                   data>>

\* if taf_raw: st.code / st.caption, else the warning; then the legend
ShowTaf ==
    /\ pc = "show_taf"
    /\ ui' = (IF Truthy(taf_raw)
              THEN Append(ui, Widget("taf", taf_raw, taf_text))
              ELSE Append(ui, Widget("warning_taf_unavailable", NoneV, NoneV)))
             \o <<Widget("legend", NoneV, NoneV)>>
    /\ pc' = "footer"
    /\ UNCHANGED <<icao_input, metar_raw, metar_text, taf_raw, taf_text,
                   station_name, lat, lon, vis, ceiling, rules, color, branches,
                   raised, cache, fetched, env,
                   data>>

\* except Exception as e: st.error(...)
Error ==
    /\ pc = "error"
    /\ ui' = Append(ui, Widget("error", Str(raised), NoneV))
    /\ pc' = "footer"
    /\ UNCHANGED <<icao_input, metar_raw, metar_text, taf_raw, taf_text,
                   station_name, lat, lon, vis, ceiling, rules, color, branches,
                   raised, cache, fetched, env,
                   data>>

\* the last line of the script
Footer ==
    /\ pc = "footer"
    /\ ui' = Append(ui, Widget("footer", NoneV, NoneV))
    /\ pc' = "done"
    /\ UNCHANGED <<icao_input, metar_raw, metar_text, taf_raw, taf_text,
                   station_name, lat, lon, vis, ceiling, rules, color, branches,
                   raised, cache, fetched, env,
                   data>>

Next ==
    \/ Submit
    \/ GetMetar
    \/ GetTaf
    \/ GetStationName
    \/ Header
    \/ Analyze
    \/ ShowMetar
    \/ ShowTaf
    \/ Error
    \/ Footer

Spec == Init /\ [][Next]_vars

-----------------------------------------------------------------------------
(* The classifier and the banner colour on their own *)

Thresholds ==
    {VFR_MIN_VIS, MVFR_MIN_VIS, IFR_MIN_VIS,
     VFR_MIN_CEILING, MVFR_MIN_CEILING, IFR_MIN_CEILING}

NearThresholds == {t + d : t \in Thresholds, d \in {-1, 0, 1}}

VisArgs ==
    {NoneV} \cup {Num(n) : n \in {k * 1000 : k \in 0..MaxVisSteps}
                                 \cup NearThresholds}

CeilingArgs ==
    {NoneV} \cup {Num(n) : n \in {k * 500 : k \in 0..MaxCeilSteps}
                                 \cup NearThresholds}

InitClassify ==
    /\ pc = "classify"
    /\ vis \in VisArgs
    /\ ceiling \in CeilingArgs
    /\ rules = Unset /\ color = Unset /\ branches = <<>>
    /\ icao_input = <<>>
    /\ metar_raw = Unset /\ metar_text = Unset
    /\ taf_raw = Unset /\ taf_text = Unset
    /\ station_name = Unset /\ lat = Unset /\ lon = Unset
    /\ raised = "none" /\ fetched = NoFetch
    /\ env = NoEnv /\ data = Unset
    /\ ui = <<>>
    /\ cache = EmptyCache

\* rules = get_flight_rules(vis, ceiling)
Classify ==
    /\ pc = "classify"
    /\ rules' = Str(get_flight_rules(vis, ceiling))
    /\ branches' = get_flight_rules_branches(vis, ceiling)
    /\ pc' = "banner"
    /\ UNCHANGED <<icao_input, metar_raw, metar_text, taf_raw, taf_text,
                   station_name, lat, lon, vis, ceiling, color, raised, ui,
                   cache, fetched, env,
                   data>>

\* color = ... ; the banner
Banner ==
    /\ pc = "banner"
    /\ color' = Str(BannerColor(rules.v))
    /\ ui' = Append(ui, Widget("banner", color', rules))
    /\ pc' = "classified"
    /\ UNCHANGED <<icao_input, metar_raw, metar_text, taf_raw, taf_text,
                   station_name, lat, lon, vis, ceiling, rules, branches, raised,
                   cache, fetched, env,
                   data>>

NextClassify == Classify \/ Banner

SpecClassify == InitClassify /\ [][NextClassify]_vars

-----------------------------------------------------------------------------
(* Properties *)

Present(x) == x.t = "num"
Classified == pc \in {"banner", "classified"}

C2_Original ==
    (Classified /\ Present(vis) /\ Present(ceiling)) =>
        (((3000 <= vis.v /\ vis.v < 5000)
          \/ (vis.v >= 5000 /\ 1000 <= ceiling.v /\ ceiling.v < 1500))
         => rules = Str(MVFR))

\* C2 as amended: every (v, c) with 3000 <= v < 5000 and c >= 1000, or with
\* v >= 5000 and 1000 <= c < 1500, is classified MVFR.
C2_Amended ==
    (Classified /\ Present(vis) /\ Present(ceiling)) =>
        (((3000 <= vis.v /\ vis.v < 5000 /\ ceiling.v >= 1000)
          \/ (vis.v >= 5000 /\ 1000 <= ceiling.v /\ ceiling.v < 1500))
         => rules = Str(MVFR))

\* the boundary pair (3000, 1000) of the amended condition has been
\* classified, as MVFR
C2_Witness ==
    /\ pc = "classified"
    /\ vis = Num(3000) /\ ceiling = Num(1000)
    /\ rules = Str(MVFR)

\* C3: whenever visibility or ceiling is absent, get_flight_rules returns the
\* insufficient-data sentinel, and the absence test (line 59) is the only
\* condition it evaluates: no threshold comparison is made.
C3_AbsenceFirst ==
    (Classified /\ (vis = NoneV \/ ceiling = NoneV)) =>
        /\ rules = Str(INSUFFICIENT_DATA)
        /\ branches = <<59>>

\* a present visibility with an absent ceiling has been classified
C3_Witness ==
    /\ pc = "classified"
    /\ vis = Num(6000) /\ ceiling = NoneV
    /\ rules = Str(INSUFFICIENT_DATA)

\* C10: the banner colour follows the legend: green for VFR, orange for
\* MVFR, red for IFR and #8B0000 for LIFR.
C10_BannerFollowsLegend ==
    pc = "classified" =>
        /\ rules = Str(VFR) => color = Str("green")
        /\ rules = Str(MVFR) => color = Str("orange")
        /\ rules = Str(IFR) => color = Str("red")
        /\ rules = Str(LIFR) => color = Str("#8B0000")

\* the analysis block has just run in this run of the script
Analyzed == pc = "show_metar"
Parsed == data # Unset
HasCavok(raw) == raw.t = "str" /\ Contains(CAVOK, Upper(raw.v))
Rendered(w) == \E i \in DOMAIN ui : ui[i].w = w
Failed(f) == fetched[f] \in {"status", "neterr", "badjson"}

\* C4: whenever the raw text contains CAVOK in any letter case, extraction
\* yields visibility 10000 m and ceiling 5000 ft, whatever the payload's
\* visibility and cloud-layer fields hold.
C4_CavokOverrides ==
    (Analyzed /\ Parsed /\ HasCavok(metar_raw)) =>
        (vis = Num(10000) /\ ceiling = Num(5000))

\* C5: when get_metar returns the absence result (and the two other fetches
\* return), the query ends with category INSUFFICIENT_DATA, visibility and
\* ceiling absent, and no exception raised at any step.
C5_MetarFailureIsInsufficientData ==
    (pc = "done" /\ fetched.get_metar = "status"
        /\ ~raised \in {"get_taf", "get_station_name"}) =>
        /\ rules = Str(INSUFFICIENT_DATA)
        /\ vis = NoneV /\ ceiling = NoneV
        /\ raised = "none"

\* C6: whenever the forecast fetch fails (non-success status, network
\* failure or malformed payload) while the current-observation and station
\* sources answer properly, the query produces a flight category and the
\* station name, the forecast is absent, and nothing is raised out of get_taf.
C6_TafFailureIsContained ==
    (pc = "done" /\ fetched.get_metar = "ok" /\ fetched.get_station_name = "ok"
        /\ Failed("get_taf")) =>
        /\ raised # "get_taf"
        /\ rules.t = "str"
        /\ Rendered("subheader")
        /\ taf_raw = NoneV /\ Rendered("warning_taf_unavailable")

\* C7: when the station-metadata fetch fails (the two other fetches having
\* returned), the station name is "Unknown name", both coordinates are
\* absent, and the METAR, the analysis and the TAF are rendered as usual.
C7_StationFailureLeavesTheRest ==
    (pc = "done" /\ Failed("get_station_name")
        /\ ~raised \in {"get_metar", "get_taf"}) =>
        /\ station_name = Str(UNKNOWN_NAME)
        /\ lat = NoneV /\ lon = NoneV
        /\ Rendered("subheader")
        /\ Rendered("metar") \/ Rendered("warning_metar_unavailable")
        /\ Rendered("banner") \/ Rendered("info_unable_to_analyze")
        /\ Rendered("taf") \/ Rendered("warning_taf_unavailable")

RECURSIVE FirstDefinedBase(_)
\* the base of the first layer, in the given order, that carries a base
FirstDefinedBase(layers) ==
    IF layers = <<>> THEN NoneV
    ELSE IF Present(Head(layers).base_feet_agl) THEN Head(layers).base_feet_agl
    ELSE FirstDefinedBase(Tail(layers))

\* the layers a payload reports
ReportedLayers(d) == IF d.clouds.t = "list" THEN d.clouds.v ELSE <<>>

\* the distance a payload reports, or absent
ReportedVisibility(d) ==
    IF d.visibility.t = "dict" /\ Present(d.visibility.meters_float)
    THEN d.visibility.meters_float
    ELSE NoneV

\* C8: without CAVOK, the extracted ceiling is the base of the first layer,
\* in the given order, that carries a defined base, and is absent exactly
\* when no layer carries one.
C8_CeilingIsFirstDefinedBase ==
    (Analyzed /\ Parsed /\ raised = "none" /\ ~HasCavok(metar_raw)) =>
        ceiling = FirstDefinedBase(ReportedLayers(data))

\* C9: without CAVOK, the extracted visibility is the reported distance when
\* the payload reports one and absent otherwise; a payload without a
\* visibility yields INSUFFICIENT_DATA and never an error.
C9_VisibilityIsReportedDistance ==
    (Analyzed /\ Parsed /\ metar_raw.t = "str" /\ ~HasCavok(metar_raw)
        /\ data.clouds.t \in {"missing", "list"}) =>
        /\ vis = ReportedVisibility(data)
        /\ ReportedVisibility(data) = NoneV =>
            (rules = Str(INSUFFICIENT_DATA) /\ raised = "none")

====
